---- MODULE Spec2Model ----
(***************************************************************************)
(* A model of the Obsidian vault tool: the link pipeline                   *)
(* (find_and_link_notes_with_embeddings), its ranking step and its link    *)
(* mutation, and the rating pipeline (rate_notes).                         *)
(*                                                                         *)
(* Text is a sequence of one-character strings.  A similarity score is     *)
(* kept exactly as the pair <<n, d>> with n = sgn(a.b) * (a.b)^2 and       *)
(* d = |a|^2 * |b|^2, d > 0: the cosine is the sign-preserving square root *)
(* of n/d, so comparing two scores, and a score with 0.7, is integer       *)
(* arithmetic.  Floating-point rounding of the cosine is not modelled.     *)
(***************************************************************************)
EXTENDS Integers, Sequences, FiniteSets, TLC

\* ---------------------------------------------------------------- bounds

\* The most embedded notes handed to the ranking step in RankSpec.
MaxNotes == 5

\* ------------------------------------------------------------- sequences

Range(s) == {s[k] : k \in DOMAIN s}

RECURSIVE Reverse(_)
\* seq[::-1]
Reverse(s) == IF s = <<>> THEN <<>> ELSE Append(Reverse(Tail(s)), Head(s))

\* All sequences over S of length 0..n.
SeqsUpTo(S, n) == UNION {[1..k -> S] : k \in 0..n}

\* ------------------------------------------------------ cosine similarity

\* The embedding vectors the provider may return.  All are of one length:
\* the code never compares lengths, and rows of different lengths are not
\* modelled.
Vectors == {<<1, 0>>, <<1, 1>>, <<0, 0>>, <<-1, 0>>}

Dot(a, b) == a[1] * b[1] + a[2] * b[2]

\* sklearn's cosine_similarity: rows are normalised, a zero row stays zero,
\* so the similarity with a zero-magnitude vector (itself included) is 0.
Cosine(a, b) ==
    IF Dot(a, a) = 0 \/ Dot(b, b) = 0 THEN <<0, 1>>
    ELSE <<(IF Dot(a, b) < 0 THEN -1 ELSE 1) * Dot(a, b) * Dot(a, b),
           Dot(a, a) * Dot(b, b)>>

\* s < t for two scores.
ScoreLess(s, t) == s[1] * t[2] < t[1] * s[2]

SIMILARITY_THRESHOLD_NUM == 7
SIMILARITY_THRESHOLD_DEN == 10

\* |similarity| > SIMILARITY_THRESHOLD: the comparison of squares alone.
AboveThresholdNoSign(s) ==
    SIMILARITY_THRESHOLD_DEN * SIMILARITY_THRESHOLD_DEN * (IF s[1] < 0 THEN -s[1] ELSE s[1])
        > SIMILARITY_THRESHOLD_NUM * SIMILARITY_THRESHOLD_NUM * s[2]

\* similarity > SIMILARITY_THRESHOLD, that is cos > 7/10.
AboveThreshold(s) ==
    /\ s[1] > 0
    /\ SIMILARITY_THRESHOLD_DEN * SIMILARITY_THRESHOLD_DEN * s[1]
         > SIMILARITY_THRESHOLD_NUM * SIMILARITY_THRESHOLD_NUM * s[2]

\* similarity_matrix[i]: row i of cosine_similarity(embeddings_matrix).
similarity_scores(embs, i) == [j \in 1..Len(embs) |-> Cosine(embs[i], embs[j])]

RECURSIVE ArgSortsOf(_, _)
\* np.argsort(scores): every index order that puts the scores in
\* non-decreasing order.  The default kind is an unstable sort, so the order
\* of equal scores depends on the build; each is a possible outcome.
ArgSortsOf(scores, left) ==
    IF left = {} THEN {<<>>}
    ELSE UNION { {<<m>> \o rest : rest \in ArgSortsOf(scores, left \ {m})} :
                 m \in {x \in left : \A y \in left : ~ScoreLess(scores[y], scores[x])} }

ArgSorts(scores) == ArgSortsOf(scores, DOMAIN scores)

\* np.argsort(similarity_scores)[::-1][1:]
sorted_indices(order) == Tail(Reverse(order))

TOP_N == 3

RECURSIVE MatchLoopNoSelfCheck(_, _, _, _)
\* The loop below without its "if i == j: continue".
MatchLoopNoSelfCheck(scores, i, idx, top) ==
    IF idx = <<>> THEN top
    ELSE LET j == Head(idx)
             top2 == IF AboveThreshold(scores[j]) THEN Append(top, j) ELSE top
         IN  IF Len(top2) >= TOP_N THEN top2
             ELSE MatchLoopNoSelfCheck(scores, i, Tail(idx), top2)

RECURSIVE MatchLoop(_, _, _, _)
\* for j in sorted_indices: skip i; append when above the threshold; stop at 3.
MatchLoop(scores, i, idx, top) ==
    IF idx = <<>> THEN top
    ELSE LET j == Head(idx)
         IN  IF i = j THEN MatchLoop(scores, i, Tail(idx), top)
             ELSE LET top2 == IF AboveThreshold(scores[j]) THEN Append(top, j) ELSE top
                  IN  IF Len(top2) >= TOP_N THEN top2
                      ELSE MatchLoop(scores, i, Tail(idx), top2)

\* top_matches of source note i, as indices into note_embeddings, for one
\* outcome of argsort.
top_matches(embs, i, order) ==
    MatchLoop(similarity_scores(embs, i), i, sorted_indices(order), <<>>)

\* ------------------------------------------------------------------ text

\* str.strip() with no argument removes whitespace; the model's texts hold
\* two whitespace characters.
IsSpace(c) == c \in {" ", "\n"}

RECURSIVE LStrip(_)
LStrip(s) == IF s # <<>> /\ IsSpace(Head(s)) THEN LStrip(Tail(s)) ELSE s

RECURSIVE RStrip(_)
RStrip(s) ==
    IF s # <<>> /\ IsSpace(s[Len(s)]) THEN RStrip(SubSeq(s, 1, Len(s) - 1)) ELSE s

\* current_content.strip(): both ends.
Strip(s) == RStrip(LStrip(s))

\* sub in s
Contains(sub, s) ==
    \E k \in 0..(Len(s) - Len(sub)) : SubSeq(s, k + 1, k + Len(sub)) = sub

RECURSIVE Join(_, _)
\* sep.join(parts)
Join(sep, parts) ==
    IF parts = <<>> THEN <<>>
    ELSE IF Len(parts) = 1 THEN parts[1]
    ELSE parts[1] \o sep \o Join(sep, Tail(parts))

\* f"[[{target_title}]]"
LinkToken(title) == <<"[", "[">> \o title \o <<"]", "]">>

\* "\n\n### Related Notes\n"
RelatedHeading ==
    <<"\n", "\n", "#", "#", "#", " ", "R", "e", "l", "a", "t", "e", "d", " ",
      "N", "o", "t", "e", "s", "\n">>

\* ----------------------------------------------------------- link mutation

\* The token followed by a newline is in the content.
LinkPresentOnOwnLine(title, content) == Contains(LinkToken(title) \o <<"\n">>, content)

\* f"[[{target_title}]]" in current_content
LinkPresent(title, content) == Contains(LinkToken(title), content)

RECURSIVE links_to_add(_, _)
\* The loop over top_matches: a title is queued when its token is not in
\* current_content (the content read before the loop; the queue itself is
\* not consulted).
links_to_add(titles, current_content) ==
    IF titles = <<>> THEN <<>>
    ELSE (IF LinkPresent(Head(titles), current_content) THEN <<>>
          ELSE <<LinkToken(Head(titles))>>)
         \o links_to_add(Tail(titles), current_content)

\* current_content.strip() + "\n\n### Related Notes\n" + "\n".join(links_to_add)
new_content(current_content, links) ==
    Strip(current_content) \o RelatedHeading \o Join(<<"\n">>, links)

\* ------------------------------------------------------------------ state

VARIABLES
    \* the ranking step alone
    rk_embs,          \* the embeddings of note_embeddings
    rk_i,             \* the source note looked at (0: none yet)
    rk_top,           \* its top_matches, as indices into note_embeddings
    \* the link mutation alone
    mu_file,          \* the source note's file content
    mu_titles,        \* the titles of top_matches, in order
    mu_runs,          \* how often the mutation has been applied
    mu_orig,          \* the content before the first application
    mu_before,        \* the content before the last application
    mu_links,         \* links_to_add of the last application
    mu_wrote,         \* whether the last application wrote the file
    \* the link pipeline
    vault,            \* the files under vault_path, in os.walk order
    vault_at_start,   \* the files as they were when the run began
    model_name_ok,    \* whether ollama_model_name can be put in a JSON payload
    pc,               \* "scanning", "embedding", "ranking", "done", "crashed"
    scan_pos,         \* the next file of the walk
    all_notes,
    embed_pos,        \* the next note of all_notes to embed
    note_embeddings,
    link_i,           \* the loop index i over note_embeddings (0: loop not entered)
    linked_count,
    attempts,         \* the paths an embedding was requested for, in order
    written,          \* the paths written by the run
    links_written,    \* per path, the links_to_add appended to it
    crash,            \* the exception that ended the run, if any
    \* the rating pipeline
    rt_files,         \* the .md files under vault_path, in os.walk order
    rt_at_start,      \* the files as they were before the first run
    rt_pc,            \* "running", "done", "crashed"
    rt_pos,           \* the next file of the walk
    rt_runs,          \* the runs started so far
    rt_ratings,       \* per file, how often a rating was written into it
    rt_crash          \* the exception that ended the last run, if any

rk_vars == <<rk_embs, rk_i, rk_top>>
mu_vars == <<mu_file, mu_titles, mu_runs, mu_orig, mu_before, mu_links, mu_wrote>>
link_vars ==
    <<vault, vault_at_start, model_name_ok, pc, scan_pos, all_notes, embed_pos,
      note_embeddings, link_i, linked_count, attempts, written, links_written, crash>>
rt_vars == <<rt_files, rt_at_start, rt_pc, rt_pos, rt_runs, rt_ratings, rt_crash>>
vars == <<rk_vars, mu_vars, link_vars, rt_vars>>

\* The value of crash while no exception has left the pipeline.
NoCrash == [exc |-> "", resp |-> "none"]

\* ------------------------------------------------- the ranking step alone

RankInit ==
    /\ rk_embs \in SeqsUpTo(Vectors, MaxNotes) \ {<<>>}
    /\ rk_i = 0
    /\ rk_top = <<>>
    \* the other parts of the state are at rest
    /\ mu_file = <<>> /\ mu_titles = <<>> /\ mu_runs = 0 /\ mu_orig = <<>>
    /\ mu_before = <<>> /\ mu_links = <<>> /\ mu_wrote = FALSE
    /\ vault = <<>> /\ vault_at_start = <<>> /\ model_name_ok = TRUE
    /\ pc = "done" /\ scan_pos = 1 /\ all_notes = <<>> /\ embed_pos = 1
    /\ note_embeddings = <<>> /\ link_i = 0 /\ linked_count = 0
    /\ attempts = <<>> /\ written = {} /\ links_written = <<>> /\ crash = NoCrash
    /\ rt_files = <<>> /\ rt_at_start = <<>> /\ rt_pc = "done" /\ rt_pos = 1
    /\ rt_runs = 0 /\ rt_ratings = <<>> /\ rt_crash = ""

\* One iteration of the loop over note_embeddings, for source note i
\* (each behaviour looks at one source note).
Rank(i) ==
    /\ rk_i = 0
    /\ \E order \in ArgSorts(similarity_scores(rk_embs, i)) :
          rk_top' = top_matches(rk_embs, i, order)
    /\ rk_i' = i
    /\ UNCHANGED rk_embs
    /\ UNCHANGED <<mu_vars, link_vars, rt_vars>>

RankNext == \E i \in 1..Len(rk_embs) : Rank(i)

\* ------------------------------------------------ the link mutation alone

Titles == {<<"a">>, <<"b">>}

\* What a note's text is put together from.
Pieces ==
    {<<" ">>, <<"\n">>, <<"x">>, <<"-", "-", "-", "\n">>} \cup {LinkToken(t) : t \in Titles}

RECURSIVE Concat(_)
Concat(ps) == IF ps = <<>> THEN <<>> ELSE Head(ps) \o Concat(Tail(ps))

\* The most pieces in a note's text.
MaxPieces == 3

Texts == {Concat(ps) : ps \in SeqsUpTo(Pieces, MaxPieces)}

MutInit ==
    /\ mu_file \in Texts
    /\ mu_titles \in SeqsUpTo(Titles, TOP_N)
    /\ mu_runs = 0
    /\ mu_orig = mu_file
    /\ mu_before = mu_file
    /\ mu_links = <<>>
    /\ mu_wrote = FALSE
    \* the other parts of the state are at rest
    /\ rk_embs = <<>> /\ rk_i = 0 /\ rk_top = <<>>
    /\ vault = <<>> /\ vault_at_start = <<>> /\ model_name_ok = TRUE
    /\ pc = "done" /\ scan_pos = 1 /\ all_notes = <<>> /\ embed_pos = 1
    /\ note_embeddings = <<>> /\ link_i = 0 /\ linked_count = 0
    /\ attempts = <<>> /\ written = {} /\ links_written = <<>> /\ crash = NoCrash
    /\ rt_files = <<>> /\ rt_at_start = <<>> /\ rt_pc = "done" /\ rt_pos = 1
    /\ rt_runs = 0 /\ rt_ratings = <<>> /\ rt_crash = ""

\* How often the mutation is applied to one note with the same titles.
MaxApplications == 2

\* The body of the loop from "if top_matches:" on, for one source note.
Mutate ==
    /\ mu_runs < MaxApplications
    /\ mu_runs' = mu_runs + 1
    /\ mu_before' = mu_file
    /\ LET links == IF mu_titles = <<>> THEN <<>> ELSE links_to_add(mu_titles, mu_file)
       IN  /\ mu_links' = links
           /\ mu_wrote' = (links # <<>>)
           /\ mu_file' = IF links # <<>> THEN new_content(mu_file, links) ELSE mu_file
    /\ UNCHANGED <<mu_titles, mu_orig>>
    /\ UNCHANGED <<rk_vars, link_vars, rt_vars>>

MutNext == Mutate

\* -------------------------------------------------------- the link pipeline

\* The most files in the vault.
MaxFiles == 3

NameA == <<"a", ".", "m", "d">>
NameB == <<"b", ".", "m", "d">>
NameC == <<"c", ".", "t", "x", "t">>

\* The kinds of file a vault is made of.  A file has a name, can or cannot
\* be read as UTF-8, and has a text; each file is in a folder of its own, so
\* its place in the walk is its path and two files may share a name.  One
\* text holds no link; the other links to note a already and has whitespace
\* at both ends.
Files ==
    {[name |-> NameA, ok |-> TRUE, text |-> <<"x">>],
     [name |-> NameA, ok |-> FALSE, text |-> <<>>],
     [name |-> NameB, ok |-> TRUE, text |-> <<"x">>],
     [name |-> NameB, ok |-> TRUE, text |-> <<" ">> \o LinkToken(<<"a">>) \o <<"\n">>],
     [name |-> NameC, ok |-> TRUE, text |-> <<"x">>]}

\* file.endswith('.md')
EndsWithMd(name) == Len(name) >= 3 /\ SubSeq(name, Len(name) - 2, Len(name)) = <<".", "m", "d">>

\* os.path.basename(note_path)[:-3]
TitleOf(name) == SubSeq(name, 1, Len(name) - 3)

\* The embedding vectors of the pipeline's provider.
PipeVectors == {<<1, 1>>, <<-1, 0>>}

\* JSON values of the "embedding" field.
EmptyList == [t |-> "list", v |-> <<>>]
JsonNull == [t |-> "null", v |-> <<>>]
JsonString == [t |-> "str", v |-> <<>>]

\* What a request to the provider may end in.
Responses ==
    [kind : {"vector"}, embedding : {[t |-> "list", v |-> v] : v \in PipeVectors}]
        \cup [kind : {"connection_error", "http_error", "invalid_json",
                      "non_object_json", "no_embedding_field"},
              embedding : {EmptyList}]
        \cup [kind : {"empty_embedding"}, embedding : {EmptyList}]
        \cup [kind : {"null_embedding"}, embedding : {JsonNull}]
        \cup [kind : {"non_vector_embedding"}, embedding : {JsonString}]

Returned(x) == [raised |-> FALSE, exc |-> "", value |-> x]
Raised(e) == [raised |-> TRUE, exc |-> e, value |-> EmptyList]

\* get_embedding_from_ollama: the set of its outcomes for one response.
\*   - a model name that json cannot serialise (main.py, line 33, passes
\*     the OllamaClient object as ollama_model_name) makes requests.post
\*     raise TypeError, which is no RequestException;
\*   - response.json() on a body that is not JSON raises
\*     requests.exceptions.JSONDecodeError, a RequestException (requests
\*     2.27 and later), which is caught;
\*   - data.get on a JSON value that is no object raises AttributeError.
get_embedding_from_ollama(name_ok, resp) ==
    IF ~name_ok THEN {Raised("TypeError")}
    ELSE CASE resp.kind \in {"connection_error", "http_error"} -> {Returned(EmptyList)}
           [] resp.kind = "invalid_json" -> {Returned(EmptyList)}
           [] resp.kind = "non_object_json" -> {Raised("AttributeError")}
           [] resp.kind = "no_embedding_field" -> {Returned(EmptyList)}
           [] OTHER -> {Returned(resp.embedding)}

\* "if embedding:"
Truthy(val) == val.t # "null" /\ ~(val.t = "list" /\ val.v = <<>>)

LinkInit ==
    /\ vault \in SeqsUpTo(Files, MaxFiles)
    /\ vault_at_start = vault
    /\ model_name_ok \in BOOLEAN
    /\ pc = "scanning"
    /\ scan_pos = 1
    /\ all_notes = <<>>
    /\ embed_pos = 1
    /\ note_embeddings = <<>>
    /\ link_i = 0
    /\ linked_count = 0
    /\ attempts = <<>>
    /\ written = {}
    /\ links_written = [p \in 1..Len(vault) |-> <<>>]
    /\ crash = NoCrash
    \* the other parts of the state are at rest
    /\ rk_embs = <<>> /\ rk_i = 0 /\ rk_top = <<>>
    /\ mu_file = <<>> /\ mu_titles = <<>> /\ mu_runs = 0 /\ mu_orig = <<>>
    /\ mu_before = <<>> /\ mu_links = <<>> /\ mu_wrote = FALSE
    /\ rt_files = <<>> /\ rt_at_start = <<>> /\ rt_pc = "done" /\ rt_pos = 1
    /\ rt_runs = 0 /\ rt_ratings = <<>> /\ rt_crash = ""

\* Step 1, a file that is no .md file: passed over.
ScanOther ==
    /\ pc = "scanning" /\ scan_pos <= Len(vault)
    /\ ~EndsWithMd(vault[scan_pos].name)
    /\ scan_pos' = scan_pos + 1
    /\ UNCHANGED <<vault, vault_at_start, model_name_ok, pc, all_notes, embed_pos,
                   note_embeddings, link_i, linked_count, attempts, written,
                   links_written, crash>>
    /\ UNCHANGED <<rk_vars, mu_vars, rt_vars>>

\* Step 1, a .md file that cannot be read: the exception is caught.
ScanUnreadable ==
    /\ pc = "scanning" /\ scan_pos <= Len(vault)
    /\ EndsWithMd(vault[scan_pos].name) /\ ~vault[scan_pos].ok
    /\ scan_pos' = scan_pos + 1
    /\ UNCHANGED <<vault, vault_at_start, model_name_ok, pc, all_notes, embed_pos,
                   note_embeddings, link_i, linked_count, attempts, written,
                   links_written, crash>>
    /\ UNCHANGED <<rk_vars, mu_vars, rt_vars>>

\* Step 1, a .md file that is read.
ScanNote ==
    /\ pc = "scanning" /\ scan_pos <= Len(vault)
    /\ EndsWithMd(vault[scan_pos].name) /\ vault[scan_pos].ok
    /\ all_notes' = Append(all_notes, [title |-> TitleOf(vault[scan_pos].name),
                                       path |-> scan_pos,
                                       content |-> vault[scan_pos].text])
    /\ scan_pos' = scan_pos + 1
    /\ UNCHANGED <<vault, vault_at_start, model_name_ok, pc, embed_pos,
                   note_embeddings, link_i, linked_count, attempts, written,
                   links_written, crash>>
    /\ UNCHANGED <<rk_vars, mu_vars, rt_vars>>

\* "if not all_notes: return"
NoNotesFound ==
    /\ pc = "scanning" /\ scan_pos > Len(vault)
    /\ all_notes = <<>>
    /\ pc' = "done"
    /\ UNCHANGED <<vault, vault_at_start, model_name_ok, scan_pos, all_notes, embed_pos,
                   note_embeddings, link_i, linked_count, attempts, written,
                   links_written, crash>>
    /\ UNCHANGED <<rk_vars, mu_vars, rt_vars>>

StartEmbedding ==
    /\ pc = "scanning" /\ scan_pos > Len(vault)
    /\ all_notes # <<>>
    /\ pc' = "embedding"
    /\ UNCHANGED <<vault, vault_at_start, model_name_ok, scan_pos, all_notes, embed_pos,
                   note_embeddings, link_i, linked_count, attempts, written,
                   links_written, crash>>
    /\ UNCHANGED <<rk_vars, mu_vars, rt_vars>>

\* The loop left as soon as one embedding is there.
EmbeddingLoopDoneEarly == note_embeddings # <<>> \/ embed_pos > Len(all_notes)

\* The loop "for note in all_notes" of step 2 has run out.
EmbeddingLoopDone == embed_pos > Len(all_notes)

\* Step 2, one note: the request, "if embedding:", the append.
EmbedNote ==
    /\ pc = "embedding" /\ ~EmbeddingLoopDone
    /\ LET note == all_notes[embed_pos] IN
       \E resp \in Responses : \E r \in get_embedding_from_ollama(model_name_ok, resp) :
          /\ attempts' = Append(attempts, note.path)
          /\ IF r.raised
             THEN /\ pc' = "crashed"
                  /\ crash' = [exc |-> r.exc,
                               resp |-> IF model_name_ok THEN resp.kind ELSE "none"]
                  /\ UNCHANGED <<note_embeddings, embed_pos>>
             ELSE /\ note_embeddings' =
                        IF Truthy(r.value)
                        THEN Append(note_embeddings, [title |-> note.title,
                                                      path |-> note.path,
                                                      embedding |-> r.value])
                        ELSE note_embeddings
                  /\ embed_pos' = embed_pos + 1
                  /\ UNCHANGED <<pc, crash>>
    /\ UNCHANGED <<vault, vault_at_start, model_name_ok, scan_pos, all_notes,
                   link_i, linked_count, written, links_written>>
    /\ UNCHANGED <<rk_vars, mu_vars, rt_vars>>

\* "if not note_embeddings: return"
NoEmbeddings ==
    /\ pc = "embedding" /\ EmbeddingLoopDone
    /\ note_embeddings = <<>>
    /\ pc' = "done"
    /\ UNCHANGED <<vault, vault_at_start, model_name_ok, scan_pos, all_notes, embed_pos,
                   note_embeddings, link_i, linked_count, attempts, written,
                   links_written, crash>>
    /\ UNCHANGED <<rk_vars, mu_vars, rt_vars>>

\* Every embedding is a list of numbers.
AllNumeric == \A k \in DOMAIN note_embeddings : note_embeddings[k].embedding.t = "list"

\* cosine_similarity(embeddings_matrix) raises ValueError on a matrix that
\* holds anything but rows of numbers.
SimilarityFails ==
    /\ pc = "embedding" /\ EmbeddingLoopDone
    /\ note_embeddings # <<>> /\ ~AllNumeric
    /\ pc' = "crashed"
    /\ crash' = [exc |-> "ValueError", resp |-> "non_vector_embedding"]
    /\ UNCHANGED <<vault, vault_at_start, model_name_ok, scan_pos, all_notes, embed_pos,
                   note_embeddings, link_i, linked_count, attempts, written,
                   links_written>>
    /\ UNCHANGED <<rk_vars, mu_vars, rt_vars>>

StartRanking ==
    /\ pc = "embedding" /\ EmbeddingLoopDone
    /\ note_embeddings # <<>> /\ AllNumeric
    /\ pc' = "ranking"
    /\ link_i' = 1
    /\ UNCHANGED <<vault, vault_at_start, model_name_ok, scan_pos, all_notes, embed_pos,
                   note_embeddings, linked_count, attempts, written, links_written, crash>>
    /\ UNCHANGED <<rk_vars, mu_vars, rt_vars>>

\* The embeddings of note_embeddings, as the rows of embeddings_matrix.
embeddings_matrix == [k \in DOMAIN note_embeddings |-> note_embeddings[k].embedding.v]

\* Step 3, source note i: ranking, then the link mutation of its file.
LinkNote ==
    /\ pc = "ranking" /\ link_i <= Len(note_embeddings)
    /\ \E order \in ArgSorts(similarity_scores(embeddings_matrix, link_i)) :
         LET top == top_matches(embeddings_matrix, link_i, order)
             source_path == note_embeddings[link_i].path
             current_content == vault[source_path].text
             titles == [k \in DOMAIN top |-> note_embeddings[top[k]].title]
             links == IF top = <<>> THEN <<>> ELSE links_to_add(titles, current_content)
         IN  /\ linked_count' = linked_count + Len(links)
             /\ IF links # <<>>
                THEN /\ vault' = [vault EXCEPT ![source_path].text =
                                      new_content(current_content, links)]
                     /\ written' = written \cup {source_path}
                     /\ links_written' = [links_written EXCEPT ![source_path] = links]
                ELSE UNCHANGED <<vault, written, links_written>>
    /\ link_i' = link_i + 1
    /\ UNCHANGED <<vault_at_start, model_name_ok, pc, scan_pos, all_notes, embed_pos,
                   note_embeddings, attempts, crash>>
    /\ UNCHANGED <<rk_vars, mu_vars, rt_vars>>

\* The loop of step 3 has run out: "Completed!".
Completed ==
    /\ pc = "ranking" /\ link_i > Len(note_embeddings)
    /\ pc' = "done"
    /\ UNCHANGED <<vault, vault_at_start, model_name_ok, scan_pos, all_notes, embed_pos,
                   note_embeddings, link_i, linked_count, attempts, written,
                   links_written, crash>>
    /\ UNCHANGED <<rk_vars, mu_vars, rt_vars>>

LinkNext ==
    \/ ScanOther \/ ScanUnreadable \/ ScanNote \/ NoNotesFound \/ StartEmbedding
    \/ EmbedNote \/ NoEmbeddings \/ SimilarityFails \/ StartRanking
    \/ LinkNote \/ Completed

\* ------------------------------------------------------ the rating pipeline

\* rate_notes walks the vault itself and looks at the .md files only; the
\* model's vault holds those.  In the rating pipeline a text is a sequence of lines, each a token, and
\* nl says whether the last line ends in a newline: the text is the lines
\* joined by "\n", plus "\n" when nl.  Blank lines and the spelling of a
\* line are not modelled.  A file that cannot be read has ok = FALSE.
Fence == "---"
RatingLines == {"rating: 5", "rating: 9"}
KeyLines == RatingLines \cup {"feedback: f", "title: t"}

\* The lines the files are made of before the first run.
StartLines == {Fence, "rating: 5", "title: t", "body"}

\* The most lines in a file before the first run.
MaxLines == 3

StartTexts ==
    {[ok |-> TRUE, lines |-> ls, nl |-> n] :
        ls \in SeqsUpTo(StartLines, MaxLines) \ {<<>>}, n \in BOOLEAN}
    \cup {[ok |-> TRUE, lines |-> <<>>, nl |-> FALSE],
          [ok |-> FALSE, lines |-> <<>>, nl |-> FALSE]}

\* The most .md files in the vault, and the most runs over it.
MaxRateFiles == 2
MaxRuns == 2

\* What get_note_rating_from_ollama returns: {} on any failure (a model
\* name that json.dumps rejects included: every exception is caught), else
\* a dict with "rating" and "feedback".
RatingResults ==
    {[ok |-> FALSE, rating |-> "", feedback |-> ""],
     [ok |-> TRUE, rating |-> "rating: 9", feedback |-> "feedback: f"]}

\* re.search(r"^---\s*\n(?P<yaml_content>.*?)\n---\s*\n", content, re.DOTALL):
\* the text starts with a fence line, and the closing fence is the first
\* fence line from the third line on, which must end in a newline.  0: no
\* match; else the line of the closing fence.
yaml_match(t) ==
    LET later == {k \in 3..Len(t.lines) : t.lines[k] = Fence}
        first == CHOOSE k \in later : \A m \in later : k <= m
    IN  IF Len(t.lines) >= 3 /\ t.lines[1] = Fence /\ later # {}
           /\ (first < Len(t.lines) \/ t.nl)
        THEN first ELSE 0

\* yaml_match.group("yaml_content"), less a leading "---" line, which YAML
\* reads as the start of the document.
yaml_content(t, close) ==
    LET body == SubSeq(t.lines, 2, close - 1)
    IN  IF body # <<>> /\ Head(body) = Fence THEN Tail(body) ELSE body

\* yaml.safe_load(...) or {} gives a dict (on which "in" and item
\* assignment work) when every line is "key: value"; any other content
\* raises, from safe_load or from the item assignment on a str.
yaml_is_dict(body) == \A k \in DOMAIN body : body[k] \in KeyLines

RECURSIVE DropDuplicates(_)
DropDuplicates(ls) ==
    IF ls = <<>> THEN <<>>
    ELSE LET front == DropDuplicates(SubSeq(ls, 1, Len(ls) - 1))
         IN  IF ls[Len(ls)] \in Range(front) THEN front ELSE Append(front, ls[Len(ls)])

\* yaml_data["rating"] = rating; yaml_data["feedback"] = feedback, then
\* yaml.safe_dump(yaml_data, sort_keys=False): the keys in insertion order,
\* a key that was there keeping its place.  Called only without a rating key.
updated_yaml(body, res) ==
    LET keys == DropDuplicates(body)
    IN  IF res.feedback \in Range(keys) THEN Append(keys, res.rating)
        ELSE keys \o <<res.rating, res.feedback>>

\* f"---\n{updated_yaml_str}---\n{content[yaml_match.end():]}"
merged_content(t, close, res) ==
    LET rest == SubSeq(t.lines, close + 1, Len(t.lines))
    IN  [ok |-> TRUE,
         lines |-> <<Fence>> \o updated_yaml(yaml_content(t, close), res) \o <<Fence>> \o rest,
         nl |-> IF rest = <<>> THEN TRUE ELSE t.nl]

\* f"---\nrating: {rating}\nfeedback: {feedback}\n---\n" + content
prefixed_content(t, res) ==
    [ok |-> TRUE,
     lines |-> <<Fence, res.rating, res.feedback, Fence>> \o t.lines,
     nl |-> IF t.lines = <<>> THEN TRUE ELSE t.nl]

RateInit ==
    /\ rt_files \in SeqsUpTo(StartTexts, MaxRateFiles)
    /\ rt_at_start = rt_files
    /\ rt_pc = "running"
    /\ rt_pos = 1
    /\ rt_runs = 1
    /\ rt_ratings = [p \in 1..Len(rt_files) |-> 0]
    /\ rt_crash = ""
    \* the other parts of the state are at rest
    /\ rk_embs = <<>> /\ rk_i = 0 /\ rk_top = <<>>
    /\ mu_file = <<>> /\ mu_titles = <<>> /\ mu_runs = 0 /\ mu_orig = <<>>
    /\ mu_before = <<>> /\ mu_links = <<>> /\ mu_wrote = FALSE
    /\ vault = <<>> /\ vault_at_start = <<>> /\ model_name_ok = TRUE
    /\ pc = "done" /\ scan_pos = 1 /\ all_notes = <<>> /\ embed_pos = 1
    /\ note_embeddings = <<>> /\ link_i = 0 /\ linked_count = 0
    /\ attempts = <<>> /\ written = {} /\ links_written = <<>> /\ crash = NoCrash

RateAt == rt_pc = "running" /\ rt_pos <= Len(rt_files)

\* open(...)/f.read() raises: nothing in rate_notes catches it.
RateReadFails ==
    /\ RateAt /\ ~rt_files[rt_pos].ok
    /\ rt_pc' = "crashed"
    /\ rt_crash' = "ReadError"
    /\ UNCHANGED <<rt_files, rt_at_start, rt_pos, rt_runs, rt_ratings>>
    /\ UNCHANGED <<rk_vars, mu_vars, link_vars>>

\* "if rating_result:" fails: "Failed to get rating", next file.
RateCallFails ==
    /\ RateAt /\ rt_files[rt_pos].ok
    /\ \E res \in RatingResults : ~res.ok
    /\ rt_pos' = rt_pos + 1
    /\ UNCHANGED <<rt_files, rt_at_start, rt_pc, rt_runs, rt_ratings, rt_crash>>
    /\ UNCHANGED <<rk_vars, mu_vars, link_vars>>

\* A frontmatter block whose content is no YAML mapping: the exception
\* leaves rate_notes.
RateYamlFails ==
    /\ RateAt /\ rt_files[rt_pos].ok
    /\ \E res \in RatingResults : res.ok
    /\ LET t == rt_files[rt_pos] IN
         /\ yaml_match(t) # 0
         /\ ~yaml_is_dict(yaml_content(t, yaml_match(t)))
    /\ rt_pc' = "crashed"
    /\ rt_crash' = "YamlError"
    /\ UNCHANGED <<rt_files, rt_at_start, rt_pos, rt_runs, rt_ratings>>
    /\ UNCHANGED <<rk_vars, mu_vars, link_vars>>

\* if "rating" in yaml_data: continue
RateAlreadyRated ==
    /\ RateAt /\ rt_files[rt_pos].ok
    /\ \E res \in RatingResults : res.ok
    /\ LET t == rt_files[rt_pos] IN
         /\ yaml_match(t) # 0
         /\ yaml_is_dict(yaml_content(t, yaml_match(t)))
         /\ Range(yaml_content(t, yaml_match(t))) \cap RatingLines # {}
    /\ rt_pos' = rt_pos + 1
    /\ UNCHANGED <<rt_files, rt_at_start, rt_pc, rt_runs, rt_ratings, rt_crash>>
    /\ UNCHANGED <<rk_vars, mu_vars, link_vars>>

\* An existing frontmatter block without a rating gets the two keys.
RateMerge ==
    /\ RateAt /\ rt_files[rt_pos].ok
    /\ \E res \in RatingResults :
         /\ res.ok
         /\ LET t == rt_files[rt_pos] IN
              /\ yaml_match(t) # 0
              /\ yaml_is_dict(yaml_content(t, yaml_match(t)))
              /\ Range(yaml_content(t, yaml_match(t))) \cap RatingLines = {}
              /\ rt_files' = [rt_files EXCEPT ![rt_pos] = merged_content(t, yaml_match(t), res)]
    /\ rt_ratings' = [rt_ratings EXCEPT ![rt_pos] = @ + 1]
    /\ rt_pos' = rt_pos + 1
    /\ UNCHANGED <<rt_at_start, rt_pc, rt_runs, rt_crash>>
    /\ UNCHANGED <<rk_vars, mu_vars, link_vars>>

\* No frontmatter block is found: a new one is put before the content.
RateNewBlock ==
    /\ RateAt /\ rt_files[rt_pos].ok
    /\ \E res \in RatingResults :
         /\ res.ok
         /\ yaml_match(rt_files[rt_pos]) = 0
         /\ rt_files' = [rt_files EXCEPT ![rt_pos] = prefixed_content(rt_files[rt_pos], res)]
    /\ rt_ratings' = [rt_ratings EXCEPT ![rt_pos] = @ + 1]
    /\ rt_pos' = rt_pos + 1
    /\ UNCHANGED <<rt_at_start, rt_pc, rt_runs, rt_crash>>
    /\ UNCHANGED <<rk_vars, mu_vars, link_vars>>

\* The walk has run out.
RateFinished ==
    /\ rt_pc = "running" /\ rt_pos > Len(rt_files)
    /\ rt_pc' = "done"
    /\ UNCHANGED <<rt_files, rt_at_start, rt_pos, rt_runs, rt_ratings, rt_crash>>
    /\ UNCHANGED <<rk_vars, mu_vars, link_vars>>

\* The tool is run again over the same vault.
RateAgain ==
    /\ rt_pc \in {"done", "crashed"} /\ rt_runs < MaxRuns
    /\ rt_pc' = "running"
    /\ rt_pos' = 1
    /\ rt_runs' = rt_runs + 1
    /\ rt_crash' = ""
    /\ UNCHANGED <<rt_files, rt_at_start, rt_ratings>>
    /\ UNCHANGED <<rk_vars, mu_vars, link_vars>>

RateNext ==
    \/ RateReadFails \/ RateCallFails \/ RateYamlFails \/ RateAlreadyRated
    \/ RateMerge \/ RateNewBlock \/ RateFinished \/ RateAgain

\* -------------------------------------------------------- specifications

RankSpec == RankInit /\ [][RankNext]_vars

MutSpec == MutInit /\ [][MutNext]_vars

Spec == LinkInit /\ [][LinkNext]_vars

RateSpec == RateInit /\ [][RateNext]_vars

\* ----------------------------------------------------- the ranking claims

Min(a, b) == IF a < b THEN a ELSE b

\* The notes a source note i should be matched with: every j # i whose
\* similarity to i is above the threshold.
Candidates(embs, i) ==
    {j \in 1..Len(embs) : j # i /\ AboveThreshold(Cosine(embs[i], embs[j]))}

NonIncreasing(embs, i, top) ==
    \A k \in 1..(Len(top) - 1) :
        ~ScoreLess(Cosine(embs[i], embs[top[k]]), Cosine(embs[i], embs[top[k + 1]]))

\* top is a result of: filter the candidates, sort descending, keep the
\* first 3 (whatever the order among equal similarities).
IsReferenceResult(embs, i, top) ==
    /\ Range(top) \subseteq Candidates(embs, i)
    /\ Cardinality(Range(top)) = Len(top)
    /\ Len(top) = Min(TOP_N, Cardinality(Candidates(embs, i)))
    /\ NonIncreasing(embs, i, top)
    /\ \A c \in Candidates(embs, i) \ Range(top) : \A k \in 1..Len(top) :
          ~ScoreLess(Cosine(embs[i], embs[top[k]]), Cosine(embs[i], embs[c]))

\* C1: for every set of embedded notes and every source note i, the match
\* list is the reference result (candidates j # i above 0.7, sorted
\* descending, first 3); no candidate is left out while fewer than 3 matches
\* are returned.
C1_MatchesAreReference ==
    rk_i # 0 => IsReferenceResult(rk_embs, rk_i, rk_top)

\* C2: the match list of source note i never contains i, has at most 3
\* entries, every entry has similarity > 0.7, and the entries are in
\* non-increasing order of similarity.
C2_MatchesWellFormed ==
    rk_i # 0 =>
        /\ \A k \in 1..Len(rk_top) :
              /\ rk_top[k] \in 1..Len(rk_embs)
              /\ rk_top[k] # rk_i
              /\ AboveThreshold(Cosine(rk_embs[rk_i], rk_embs[rk_top[k]]))
        /\ Len(rk_top) <= TOP_N
        /\ NonIncreasing(rk_embs, rk_i, rk_top)

\* A source note with more than 3 candidates, of differing similarity, one
\* of them tied with the note's similarity to itself: 3 matches are kept.
C2_Witness ==
    /\ rk_i # 0
    /\ Len(rk_top) = TOP_N
    /\ Cardinality(Candidates(rk_embs, rk_i)) > TOP_N
    /\ ScoreLess(Cosine(rk_embs[rk_i], rk_embs[rk_top[TOP_N]]),
                 Cosine(rk_embs[rk_i], rk_embs[rk_top[1]]))
    /\ \E j \in Candidates(rk_embs, rk_i) : rk_embs[j] = rk_embs[rk_i]

\* ---------------------------------------------------- the mutation claims

IsPrefix(p, s) == Len(p) <= Len(s) /\ SubSeq(s, 1, Len(p)) = p

\* C3: when the mutation writes a note, the new content is the old text
\* with only its trailing whitespace removed, then the heading block, then
\* each new link on its own line; the old text up to its trailing
\* whitespace (leading whitespace included) is a prefix of the new content.
C3_OnlyTrailingWhitespaceRemoved ==
    (mu_runs >= 1 /\ mu_wrote) =>
        /\ mu_file = RStrip(mu_before) \o RelatedHeading \o Join(<<"\n">>, mu_links)
        /\ IsPrefix(RStrip(mu_before), mu_file)

\* C4: applying the mutation again to its own result with the same
\* candidate list queues no link, performs no write and leaves the content
\* as it was after the first application.
C4_MutationIdempotent ==
    mu_runs >= 2 => (mu_links = <<>> /\ ~mu_wrote /\ mu_file = mu_before)

\* The first application wrote two links or more, and it was applied again.
C4_Witness ==
    /\ mu_runs >= 2
    /\ mu_file # mu_orig
    /\ Len(mu_titles) >= 2
    /\ \E t \in Range(mu_titles) : ~LinkPresent(t, mu_orig)
    /\ \E t \in Range(mu_titles) : LinkPresent(t, mu_orig)

\* ---------------------------------------------------- the pipeline claims

\* The response kinds that are a failure of the provider: everything but a
\* numeric vector under "embedding".
ProviderFailures ==
    {"connection_error", "http_error", "invalid_json", "non_object_json",
     "no_embedding_field", "empty_embedding", "null_embedding", "non_vector_embedding"}

\* C5: in a link run every provider failure for a note (network error,
\* non-2xx response, malformed payload of any shape) becomes "no embedding"
\* for that note only: no exception escapes, the note is left out of the
\* ranking, and the run goes on.
C5_ProviderFailuresAbsorbed ==
    /\ ~(pc = "crashed" /\ crash.resp \in ProviderFailures)
    /\ \A k \in DOMAIN note_embeddings : note_embeddings[k].embedding.t = "list"

PhaseRank(p) ==
    CASE p = "scanning" -> 1 [] p = "embedding" -> 2 [] p = "ranking" -> 3 [] OTHER -> 4

PathsOf(notes) == [k \in DOMAIN notes |-> notes[k].path]

\* What holds of every state of a run, for C7.
PhaseInvariant ==
    /\ Len(attempts) <= Len(all_notes)
    /\ attempts = SubSeq(PathsOf(all_notes), 1, Len(attempts))
    /\ \A k, m \in DOMAIN attempts : k # m => attempts[k] # attempts[m]
    /\ pc = "scanning" => (attempts = <<>> /\ note_embeddings = <<>>)
    /\ pc \in {"scanning", "embedding"} => (written = {} /\ link_i = 0)
    /\ (pc = "ranking" \/ written # {} \/ link_i # 0) => Len(attempts) = Len(all_notes)
    /\ (pc = "done" /\ (all_notes = <<>> \/ note_embeddings = <<>>)) =>
           (written = {} /\ link_i = 0)

\* What holds of every step of a run, for C7.
PhaseStep ==
    /\ PhaseRank(pc') >= PhaseRank(pc)
    /\ pc \in {"done", "crashed"} => pc' = pc
    /\ (pc = "scanning" /\ pc' # "scanning") =>
           \/ pc' = "done" /\ all_notes = <<>>
           \/ pc' = "embedding" /\ all_notes # <<>>
    /\ (pc = "embedding" /\ pc' = "done") => note_embeddings = <<>>
    /\ (pc = "embedding" /\ pc' = "ranking") =>
           (note_embeddings # <<>> /\ Len(attempts) = Len(all_notes))
    /\ attempts' # attempts =>
           /\ pc = "embedding"
           /\ Len(attempts) < Len(all_notes)
           /\ attempts' = Append(attempts, all_notes[Len(attempts) + 1].path)
    /\ (written' # written \/ vault' # vault) => (pc = "ranking" /\ pc' = "ranking")

\* C7: the phases come only in the order SCANNING, EMBEDDING,
\* RANKING+LINKING, DONE, none is entered again; each scanned note gets one
\* embedding attempt, in scan order; nothing is ranked or written before
\* the last attempt; zero notes or zero embeddings lead straight to DONE.
C7_PhaseOrder == [](PhaseInvariant) /\ [][PhaseStep]_vars

\* A run over three notes, one of which got no embedding, that linked the
\* other two and ended.
C7_Witness ==
    /\ pc = "done"
    /\ Len(attempts) = 3
    /\ Len(note_embeddings) = 2
    /\ Cardinality(written) = 2

\* cos(a, b) > 0.7, from the definition of the cosine.
RefSimilar(a, b) ==
    /\ Dot(a, b) > 0
    /\ 100 * Dot(a, b) * Dot(a, b) > 49 * Dot(a, a) * Dot(b, b)

\* Path p was embedded and has a match above the threshold whose link
\* token is not in its text.
HasNewLink(p) ==
    \E k \in DOMAIN note_embeddings :
        /\ note_embeddings[k].path = p
        /\ AllNumeric
        /\ \E j \in DOMAIN note_embeddings :
              /\ j # k
              /\ RefSimilar(note_embeddings[k].embedding.v, note_embeddings[j].embedding.v)
              /\ ~Contains(LinkToken(note_embeddings[j].title), vault_at_start[p].text)

\* C8: a file is overwritten only if its embedding succeeded and it has a
\* match above the threshold whose link token is not in its text; every
\* other file is as it was.  Nothing is written when there is no note, or
\* no embedding.
C8_OnlyLinkedNotesWritten ==
    /\ \A p \in DOMAIN vault :
          (vault[p] # vault_at_start[p] \/ p \in written) => HasNewLink(p)
    /\ (all_notes = <<>> \/ note_embeddings = <<>>) => vault = vault_at_start

\* The A/B/C scenario: three embedded notes, two of them linked to each
\* other and written, the third, dissimilar to both, as it was.
C8_Witness ==
    /\ pc = "done"
    /\ Len(note_embeddings) = 3
    /\ Cardinality(written) = 2
    /\ \E p \in DOMAIN vault :
          /\ p \notin written
          /\ vault[p] = vault_at_start[p]
          /\ \E k \in DOMAIN note_embeddings : note_embeddings[k].path = p

RECURSIVE DistinctLinks(_, _)
\* The number of distinct link tokens appended, summed over paths 1..n.
DistinctLinks(lw, n) ==
    IF n = 0 THEN 0 ELSE Cardinality(Range(lw[n])) + DistinctLinks(lw, n - 1)

\* C10: one mutation never appends the same link token twice, also when two
\* matched notes in different folders share a title, and the total of
\* links added counts each token once.
C10_NoDuplicateLinks ==
    /\ \A p \in DOMAIN links_written :
          Cardinality(Range(links_written[p])) = Len(links_written[p])
    /\ linked_count = DistinctLinks(links_written, Len(links_written))

\* ------------------------------------------------------ the rating claims

\* C6: in either mode a Markdown file that cannot be read is skipped and
\* every other Markdown file is still processed; the run does not abort.
C6_UnreadableFilesSkipped ==
    /\ ~(pc = "crashed" /\ crash.exc = "ReadError")
    /\ ~(rt_pc = "crashed" /\ rt_crash = "ReadError")

\* The text starts with a YAML frontmatter block (a fence line, key lines,
\* a closing fence line) that holds a rating key.
HasRatedFrontmatter(t) ==
    /\ t.ok
    /\ Len(t.lines) >= 3
    /\ t.lines[1] = Fence
    /\ \E k \in 3..Len(t.lines) :
          /\ t.lines[k] = Fence
          /\ \A m \in 2..(k - 1) : t.lines[m] \in KeyLines
          /\ \E m \in 2..(k - 1) : t.lines[m] \in RatingLines

StartsWithFence(t) == t.lines # <<>> /\ t.lines[1] = Fence

\* C9: a note whose leading frontmatter holds a rating key is left as it
\* is by every rate run, so a note is rated at most once; a note without
\* frontmatter whose rating call succeeds becomes a new frontmatter block
\* with rating and feedback, followed by its content unchanged.
C9_RatedNotesUntouched ==
    \A p \in DOMAIN rt_files :
        /\ HasRatedFrontmatter(rt_at_start[p]) => rt_files[p] = rt_at_start[p]
        /\ rt_ratings[p] <= 1
        /\ (rt_ratings[p] = 1 /\ ~StartsWithFence(rt_at_start[p])) =>
              /\ SubSeq(rt_files[p].lines, 1, 4)
                    = <<Fence, "rating: 9", "feedback: f", Fence>>
              /\ SubSeq(rt_files[p].lines, 5, Len(rt_files[p].lines)) = rt_at_start[p].lines

====
